---- MODULE Spec2Model ----
(***************************************************************************)
(* Model of the rolling series aggregator of the levels dashboard:         *)
(* the Home component (src/app/page.tsx, and its variant with the          *)
(* "Max Messages" selector, src/unnamed/part_001) polling the direct       *)
(* route (src/unnamed/part_003).                                           *)
(*                                                                         *)
(* Numbers are held in hundredths (450025 is 4500.25).  Array indices are  *)
(* 1-based; findIndex returns 0 where JavaScript returns -1.               *)
(***************************************************************************)
EXTENDS Integers, Sequences, FiniteSets, TLC

\* ---------------------------------------------------------------- bounds
MaxBound == 2        \* selectable values of maxMessages are 1..MaxBound
MaxInFlight == 2     \* fetch cycles that may be pending at once

\* useState<number>(10), the smallest selectable value, scaled to 1..MaxBound
InitialMaxMessages == 1

Null == "null"

\* ---------------------------------------------------------------- inputs
MessageIds == {"m1", "m2", "m3"}

\* the upstream message fixes its own sent stamp
SentOf(id) == IF id = "m1" THEN "t1" ELSE IF id = "m2" THEN "t2" ELSE "t3"

BoundOptions == 1..MaxBound

ItemA == [symbol |-> "@ES", timeframe |-> "Daily", price |-> 450025, count |-> 1200,
          levels |-> <<449000, 449500, 451000, 451500>>]
ItemB == [symbol |-> "@ES", timeframe |-> "Daily", price |-> 460000, count |-> 700,
          levels |-> <<459000, 459500, 461000, 461500>>]
ItemC == [symbol |-> "@ES", timeframe |-> "5 Min", price |-> 455075, count |-> 1500,
          levels |-> <<454000, 454500, 456000, 456500>>]
ItemD == [symbol |-> "@ESZ", timeframe |-> "Daily", price |-> 470050, count |-> 300,
          levels |-> <<469000, 469500, 471000, 471500>>]

\* record lists a response may carry: none, two records of one key, two
\* records whose keys differ from that key in the timeframe only and in the
\* symbol only
MatrixItems == {ItemA, ItemB, ItemC, ItemD}

ItemLists == { <<>>, <<ItemB, ItemA>>, <<ItemC, ItemD>> }

\* Date.now() of the route
LastUpdatedVals == {"now"}

\* bodies of a 200 answer of the route, { messageId, items, sent, lastUpdated }:
\* a message with its id and sent stamp and any of the record lists, and the
\* bodies that lack the id, the sent stamp or both
CompleteBodies ==
    { [messageId |-> id, sent |-> SentOf(id), items |-> its, lastUpdated |-> lu] :
        id \in MessageIds, its \in ItemLists, lu \in LastUpdatedVals }

IncompleteBodies ==
    { [messageId |-> id, sent |-> Null, items |-> <<ItemB, ItemA>>, lastUpdated |-> lu] :
        id \in MessageIds \cup {Null}, lu \in LastUpdatedVals }
    \cup
    { [messageId |-> Null, sent |-> "t1", items |-> <<ItemC, ItemD>>, lastUpdated |-> lu] :
        lu \in LastUpdatedVals }

OkBodies == CompleteBodies \cup IncompleteBodies

\* body of the 500 answer of the route
ErrorBody == [messageId |-> Null, sent |-> Null, items |-> <<>>, lastUpdated |-> Null]

\* ----------------------------------------------------------------- state
\* ------------------------------------------------------------ the parser
\* parseEmailBody of the routes.  A string is a sequence of one-character
\* strings; a number is [kind, val] with val in hundredths.
MaxLines == 2         \* lines in a message body

SPLIT_CHAR == <<"<", "b", "r", "/", ">">>
SYMBOL_PREFIX == <<"@", "E", "S">>
TokMin == <<"M", "i", "n">>
TokInfinity == <<"I", "n", "f", "i", "n", "i", "t", "y">>

\* white space as \s and trim() see it, among the characters of the inputs
WhiteSpace == {" ", "\n"}
Digits == <<"0", "1", "2", "3", "4", "5", "6", "7", "8", "9">>
IsDigit(c) == \E i \in 1..10 : Digits[i] = c
DigitVal(c) == (CHOOSE i \in 1..10 : Digits[i] = c) - 1

NaN == [kind |-> "nan", val |-> 0]
Infinity(neg) == [kind |-> IF neg THEN "-inf" ELSE "inf", val |-> 0]
Num(v) == [kind |-> "num", val |-> v]
IsNaN(x) == x.kind = "nan"

\* l.startsWith(prefix)
StartsWith(s, prefix) ==
    Len(s) >= Len(prefix) /\ SubSeq(s, 1, Len(prefix)) = prefix

\* l.trim()
Trim(s) ==
    LET kept == { i \in 1..Len(s) : s[i] \notin WhiteSpace }
    IN  IF kept = {} THEN <<>>
        ELSE SubSeq(s, CHOOSE i \in kept : \A j \in kept : i <= j,
                       CHOOSE i \in kept : \A j \in kept : i >= j)

\* the k-th element of a finite set of numbers, in increasing order
Nth(S, k) == CHOOSE i \in S : Cardinality({ j \in S : j < i }) = k - 1

\* s.split(sep) for a separator that cannot overlap itself: the pieces between
\* the places where sep occurs
SplitOn(s, sep) ==
    LET hits == { i \in 1..(Len(s) - Len(sep) + 1) : SubSeq(s, i, i + Len(sep) - 1) = sep }
        n == Cardinality(hits)
        from(k) == IF k = 1 THEN 1 ELSE Nth(hits, k - 1) + Len(sep)
        to(k) == IF k = n + 1 THEN Len(s) ELSE Nth(hits, k) - 1
    IN  [k \in 1..(n + 1) |-> SubSeq(s, from(k), to(k))]

\* l.split(/\s+/): the maximal runs without white space, with an empty string
\* in front when l starts with white space and one behind when it ends with it
SplitWhiteSpace(s) ==
    LET starts == { i \in 1..Len(s) :
                      s[i] \notin WhiteSpace /\ (i = 1 \/ s[i - 1] \in WhiteSpace) }
        ends == { i \in 1..Len(s) :
                      s[i] \notin WhiteSpace /\ (i = Len(s) \/ s[i + 1] \in WhiteSpace) }
        runs == [k \in 1..Cardinality(starts) |-> SubSeq(s, Nth(starts, k), Nth(ends, k))]
    IN  IF s = <<>> THEN << <<>> >>
        ELSE (IF s[1] \in WhiteSpace THEN << <<>> >> ELSE <<>>)
             \o runs
             \o (IF s[Len(s)] \in WhiteSpace /\ starts # {} THEN << <<>> >> ELSE <<>>)

\* x.replace(/,/g, '')
StripCommas(s) == SelectSeq(s, LAMBDA c : c # ",")

\* how many digits s starts with
LeadingDigits(s) ==
    LET others == { i \in 1..Len(s) : ~IsDigit(s[i]) }
    IN  IF others = {} THEN Len(s) ELSE Nth(others, 1) - 1

RECURSIVE NatOf(_)
NatOf(ds) ==
    IF ds = <<>> THEN 0 ELSE 10 * NatOf(SubSeq(ds, 1, Len(ds) - 1)) + DigitVal(ds[Len(ds)])

\* parseFloat: the longest prefix that is a decimal literal (sign, Infinity,
\* digits, a point, digits), NaN when there is none.  The inputs have no
\* exponent and at most two fraction digits.
ParseFloat(s) ==
    LET signed == s # <<>> /\ Head(s) \in {"+", "-"}
        neg == s # <<>> /\ Head(s) = "-"
        rest == IF signed THEN Tail(s) ELSE s
        nInt == LeadingDigits(rest)
        afterInt == SubSeq(rest, nInt + 1, Len(rest))
        nFrac == IF afterInt # <<>> /\ Head(afterInt) = "."
                 THEN LeadingDigits(Tail(afterInt)) ELSE 0
        frac == SubSeq(afterInt, 2, 1 + nFrac)
        hundredths == 100 * NatOf(SubSeq(rest, 1, nInt))
                      + (IF nFrac >= 1 THEN 10 * DigitVal(frac[1]) ELSE 0)
                      + (IF nFrac >= 2 THEN DigitVal(frac[2]) ELSE 0)
    IN  IF StartsWith(rest, TokInfinity) THEN Infinity(neg)
        ELSE IF nInt = 0 /\ nFrac = 0 THEN NaN
        ELSE Num(IF neg THEN 0 - hundredths ELSE hundredths)

\* p.slice(from, to), zero-based and end-exclusive as in the source
Slice(p, from, to) ==
    SubSeq(p, from + 1, IF to < Len(p) THEN to ELSE Len(p))

\* levels: each token without its commas, through parseFloat
ParseLevels(toks) == [k \in 1..Len(toks) |-> ParseFloat(StripCommas(toks[k]))]

\* variant: the 'Min' branch reads price, count and levels one token late
ParseLineMinShifted(l) ==
    LET p == SplitWhiteSpace(l)
        isMin == p[3] = TokMin
        symbol == p[1]
        timeframe == IF isMin THEN p[2] \o <<" ">> \o p[3] ELSE p[2]
        price == IF isMin THEN ParseFloat(StripCommas(p[5]))
                 ELSE ParseFloat(StripCommas(p[3]))
        count == IF isMin THEN ParseFloat(p[6]) ELSE ParseFloat(p[4])
        levels == IF isMin THEN ParseLevels(Slice(p, 6, 10))
                  ELSE ParseLevels(Slice(p, 4, 8))
    IN  IF Len(p) < 8 THEN <<>>
        ELSE IF IsNaN(price) \/ IsNaN(count) \/ \E k \in 1..Len(levels) : IsNaN(levels[k])
        THEN <<>>
        ELSE << [symbol |-> symbol, timeframe |-> timeframe, price |-> price,
                 count |-> count, levels |-> levels] >>

\* variant: the token count is not looked at
ParseLineAnyLength(l) ==
    LET p == SplitWhiteSpace(l)
        width == Len(p)
        isMin == width >= 3 /\ p[3] = TokMin
        first == IF isMin THEN 4 ELSE 3
        price == IF width >= first THEN ParseFloat(StripCommas(p[first])) ELSE NaN
        count == IF width >= first + 1 THEN ParseFloat(p[first + 1]) ELSE NaN
        levels == ParseLevels(Slice(p, first + 1, first + 5))
    IN  IF IsNaN(price) \/ IsNaN(count) \/ \E k \in 1..Len(levels) : IsNaN(levels[k])
        THEN <<>>
        ELSE << [symbol |-> p[1],
                 timeframe |-> IF isMin THEN p[2] \o <<" ">> \o p[3] ELSE p[2],
                 price |-> price, count |-> count, levels |-> levels] >>

\* the callback of the second map, for one kept line: no record (null, which
\* filter(Boolean) removes) or one
ParseLine(l) ==
    LET p == SplitWhiteSpace(l)
        isMin == p[3] = TokMin
        symbol == p[1]
        timeframe == IF isMin THEN p[2] \o <<" ">> \o p[3] ELSE p[2]
        price == IF isMin THEN ParseFloat(StripCommas(p[4]))
                 ELSE ParseFloat(StripCommas(p[3]))
        count == IF isMin THEN ParseFloat(p[5]) ELSE ParseFloat(p[4])
        levels == IF isMin THEN ParseLevels(Slice(p, 5, 9))
                  ELSE ParseLevels(Slice(p, 4, 8))
    IN  IF Len(p) < 8 THEN <<>>
        ELSE IF IsNaN(price) \/ IsNaN(count) \/ \E k \in 1..Len(levels) : IsNaN(levels[k])
        THEN <<>>
        ELSE << [symbol |-> symbol, timeframe |-> timeframe, price |-> price,
                 count |-> count, levels |-> levels] >>

\* split, trim, keep the lines that start with the prefix
KeptLines(body) ==
    LET lines == SplitOn(body, SPLIT_CHAR)
        trimmed == [i \in 1..Len(lines) |-> Trim(lines[i])]
    IN  SelectSeq(trimmed, LAMBDA l : StartsWith(l, SYMBOL_PREFIX))

RECURSIVE ParseLines(_)
ParseLines(ls) ==
    IF ls = <<>> THEN <<>> ELSE ParseLine(Head(ls)) \o ParseLines(Tail(ls))

\* variant: the first kept line that gives no record ends the parse
ParseEmailBodyStopsAtBadLine(body) ==
    LET ls == KeptLines(body)
        bad == { i \in 1..Len(ls) : ParseLine(ls[i]) = <<>> }
        upto == IF bad = {} THEN Len(ls) ELSE Nth(bad, 1) - 1
    IN  IF body = <<>> THEN <<>> ELSE ParseLines(SubSeq(ls, 1, upto))

\* parseEmailBody: an empty body gives no records
ParseEmailBody(body) ==
    IF body = <<>> THEN <<>> ELSE ParseLines(KeptLines(body))

\* lines of a message body, as the mail API's cleanedBody holds them between
\* SPLIT_CHARs
\* a sub-day line, nine tokens: '@ES 5 Min 4,550.75 1500 4540.00 4545.00 4555.00 4560.00'
LineMin9 ==
    <<"@", "E", "S", " ", "5", " ", "M", "i", "n", " ", "4", ",", "5", "5", "0", ".",
      "7", "5", " ", "1", "5", "0", "0", " ", "4", "5", "4", "0", ".", "0", "0", " ",
      "4", "5", "4", "5", ".", "0", "0", " ", "4", "5", "5", "5", ".", "0", "0", " ",
      "4", "5", "6", "0", ".", "0", "0">>

\* a line of the other layout, eight tokens: '@ES Daily 4,500.25 1200 4490.00 4495.00 4505.00 4510.00'
LineDaily8 ==
    <<"@", "E", "S", " ", "D", "a", "i", "l", "y", " ", "4", ",", "5", "0", "0", ".",
      "2", "5", " ", "1", "2", "0", "0", " ", "4", "4", "9", "0", ".", "0", "0", " ",
      "4", "4", "9", "5", ".", "0", "0", " ", "4", "5", "0", "5", ".", "0", "0", " ",
      "4", "5", "1", "0", ".", "0", "0">>

\* a sub-day line of eight tokens: '@ES 5 Min 4,500.25 12 4490.00 4495.00 4510.00'
LineMin8 ==
    <<"@", "E", "S", " ", "5", " ", "M", "i", "n", " ", "4", ",", "5", "0", "0", ".",
      "2", "5", " ", "1", "2", " ", "4", "4", "9", "0", ".", "0", "0", " ", "4", "4",
      "9", "5", ".", "0", "0", " ", "4", "5", "1", "0", ".", "0", "0">>

\* fewer than eight tokens: '@ES Daily 4500.25 12'
LineShort ==
    <<"@", "E", "S", " ", "D", "a", "i", "l", "y", " ", "4", "5", "0", "0", ".", "2",
      "5", " ", "1", "2">>

\* no prefix: 'Sent from my phone'
LineProse ==
    <<"S", "e", "n", "t", " ", "f", "r", "o", "m", " ", "m", "y", " ", "p", "h", "o",
      "n", "e">>

\* price is not a number: '@ES Daily n/a 12 1 2 3 4'
LineNaNPrice ==
    <<"@", "E", "S", " ", "D", "a", "i", "l", "y", " ", "n", "/", "a", " ", "1", "2",
      " ", "1", " ", "2", " ", "3", " ", "4">>

\* a level is not a number: '@ES Daily 4500 12 1 x 3 4'
LineNaNLevel ==
    <<"@", "E", "S", " ", "D", "a", "i", "l", "y", " ", "4", "5", "0", "0", " ", "1",
      "2", " ", "1", " ", "x", " ", "3", " ", "4">>

\* price is the token Infinity: '@ES Daily Infinity 12 1 2 3 4'
LineInfinity ==
    <<"@", "E", "S", " ", "D", "a", "i", "l", "y", " ", "I", "n", "f", "i", "n", "i",
      "t", "y", " ", "1", "2", " ", "1", " ", "2", " ", "3", " ", "4">>

\* price starts with digits: '@ES Daily 12abc 7 1 2 3 4'
LinePartial ==
    <<"@", "E", "S", " ", "D", "a", "i", "l", "y", " ", "1", "2", "a", "b", "c", " ",
      "7", " ", "1", " ", "2", " ", "3", " ", "4">>

\* count with a thousands separator: '@ES Daily 4500 1,200 1 2 3 4'
LineCommaCount ==
    <<"@", "E", "S", " ", "D", "a", "i", "l", "y", " ", "4", "5", "0", "0", " ", "1",
      ",", "2", "0", "0", " ", "1", " ", "2", " ", "3", " ", "4">>

\* another symbol with the prefix: '@ESZ5 Daily 4,700.50 300 1 2 3 4'
LineOtherSymbol ==
    <<"@", "E", "S", "Z", "5", " ", "D", "a", "i", "l", "y", " ", "4", ",", "7", "0",
      "0", ".", "5", "0", " ", "3", "0", "0", " ", "1", " ", "2", " ", "3", " ", "4">>

\* white space around and between: '\n  @ES  Daily 4600 700  1 2 3 4 '
LinePadded ==
    <<"\n", " ", " ", "@", "E", "S", " ", " ", "D", "a", "i", "l", "y", " ", "4",
      "6", "0", "0", " ", "7", "0", "0", " ", " ", "1", " ", "2", " ", "3", " ", "4",
      " ">>

TestLines ==
    { LineMin9, LineDaily8, LineMin8, LineShort,
      LineProse, LineNaNPrice, LineNaNLevel, LineInfinity,
      LinePartial, LineCommaCount, LineOtherSymbol, LinePadded }

RECURSIVE JoinLines(_)
JoinLines(ls) ==
    IF ls = <<>> THEN <<>>
    ELSE IF Len(ls) = 1 THEN ls[1]
    ELSE ls[1] \o SPLIT_CHAR \o JoinLines(Tail(ls))

\* bodies of up to MaxLines lines
Bodies ==
    { JoinLines(ls) : ls \in UNION { [1..n -> TestLines] : n \in 0..MaxLines } }

\* ------------------------------------------------- the body the route gets
\* json of the mail API's message: cleanedBody is a string or is missing
NoCleanedBody == [present |-> FALSE, text |-> <<>>]
CleanedBodies == { [present |-> TRUE, text |-> b] : b \in Bodies } \cup {NoCleanedBody}

\* json?.cleanedBody || []: the string when it is there and not empty, else a
\* new empty array
FetchLatestMessageBody(json) ==
    IF json.present /\ json.text # <<>>
    THEN [isString |-> TRUE, text |-> json.text]
    ELSE [isString |-> FALSE, text |-> <<>>]

\* parseEmailBody(body) throws a TypeError: body is an array, which is truthy
\* (so `if (!body)` does not return) and has no split
ParseThrows(body) == ~body.isString

\* ------------------------------------------------------------ the matrix
\* generateRawMatrix of the page, on the records the route parsed
RECURSIVE NatToChars(_)
NatToChars(n) ==
    IF n < 10 THEN <<Digits[n + 1]>>
    ELSE Append(NatToChars(n \div 10), Digits[(n % 10) + 1])

\* variant: toFixed(0), no fraction digits (half away from zero)
ToFixed0(x) ==
    LET abs == IF x.val < 0 THEN 0 - x.val ELSE x.val
    IN  (IF x.val < 0 THEN <<"-">> ELSE <<>>) \o NatToChars((abs + 50) \div 100)

\* x.toFixed(2) of a finite number held in hundredths
ToFixed2(x) ==
    LET abs == IF x.val < 0 THEN 0 - x.val ELSE x.val
    IN  (IF x.val < 0 THEN <<"-">> ELSE <<>>)
        \o NatToChars(abs \div 100)
        \o <<".", Digits[((abs \div 10) % 10) + 1], Digits[(abs % 10) + 1]>>

\* parts.join(sep)
RECURSIVE JoinWith(_, _)
JoinWith(parts, sep) ==
    IF parts = <<>> THEN <<>>
    ELSE IF Len(parts) = 1 THEN parts[1]
    ELSE parts[1] \o sep \o JoinWith(Tail(parts), sep)

\* the template literal of one row
RawRow(row) ==
    row.symbol \o <<" ">> \o row.timeframe \o <<" ">> \o ToFixed2(row.price) \o <<" ">>
    \o ToFixed2(row.count) \o <<" ">>
    \o JoinWith([k \in 1..Len(row.levels) |-> ToFixed2(row.levels[k])], <<" ">>)

\* variant: every row is ended by a newline
GenerateRawMatrixTrailing(matrixItems) ==
    JoinWith([i \in 1..Len(matrixItems) |-> RawRow(matrixItems[i]) \o <<"\n">>], <<>>)

GenerateRawMatrix(matrixItems) ==
    JoinWith([i \in 1..Len(matrixItems) |-> RawRow(matrixItems[i])], <<"\n">>)

\* a record whose numbers are all finite: the others arrive at the page as
\* null (JSON has no Infinity) and toFixed on null throws
AllFinite(row) ==
    /\ row.price.kind = "num"
    /\ row.count.kind = "num"
    /\ \A k \in 1..Len(row.levels) : row.levels[k].kind = "num"

\* ------------------------------------------- timer, blob store, middleware
\* Home after its first render: the polling effect has armed its interval
Mounted == [mounted |-> TRUE, timers |-> 1]

\* latest.json has not been written
NoBlob == [present |-> FALSE, items |-> <<>>, lastUpdated |-> Null]

\* latest.json as put writes it: JSON of { items, lastUpdated: Date.now() }
Snapshot(items) == [present |-> TRUE, items |-> items, lastUpdated |-> "now"]

\* no request has come in
NoRequest == [authCode |-> Null, path |-> <<>>, code |-> Null, response |-> "none"]

VARIABLES
    data,               \* useState<SymbolTimeframeData[]>
    lastUpdated,        \* useState<string | null>
    latestMessageData,  \* useState<Array<MatrixItem>>
    seenMessageIds,     \* seenMessageIdsRef.current
    loading,            \* useState(true)
    maxMessages,        \* useState<number>(10)
    inFlight,           \* pending fetchData calls: maxMessages of their closure -> how many
    lastOp,             \* history: the operation that produced this state
    messageBody,        \* GET of the route: messageBody
    parsedItems,        \* GET of the route: items
    cleanedBody,        \* the mail API's answer for the message: its cleanedBody
    rawMatrix,          \* the page's render: generateRawMatrix(latestMessageData)
    polling,            \* the polling effect: is Home mounted, how many intervals are armed
    blob,               \* the blob store's latest.json
    gate                \* a request at the middleware and what became of it

vars == <<data, lastUpdated, latestMessageData, seenMessageIds, loading, maxMessages,
          inFlight, lastOp, messageBody, parsedItems,
                   cleanedBody, rawMatrix,
                   polling, blob, gate>>

\* ------------------------------------------------------- JavaScript helpers
\* truthiness of a string | null value, as tested by `a && b`
Truthy(v) == v # Null /\ v # ""

\* -------------------------------------------------------- the middleware
\* paths of requests
\* '/'
PathRoot == <<"/">>
\* '/dashboard'
PathDashboard == <<"/", "d", "a", "s", "h", "b", "o", "a", "r", "d">>
\* '/api'
PathApi == <<"/", "a", "p", "i">>
\* '/api/data'
PathApiData == <<"/", "a", "p", "i", "/", "d", "a", "t", "a">>
\* '/api/gaggle-direct'
PathApiDirect ==
    <<"/", "a", "p", "i", "/", "g", "a", "g", "g", "l", "e", "-", "d", "i", "r", "e",
      "c", "t">>
\* '/api/poll-gaggle'
PathApiPoll ==
    <<"/", "a", "p", "i", "/", "p", "o", "l", "l", "-", "g", "a", "g", "g", "l", "e">>
\* '/favicon.ico'
PathFavicon == <<"/", "f", "a", "v", "i", "c", "o", "n", ".", "i", "c", "o">>
\* '/_next/static/app.js'
PathNextStatic ==
    <<"/", "_", "n", "e", "x", "t", "/", "s", "t", "a", "t", "i", "c", "/", "a", "p",
      "p", ".", "j", "s">>
\* '/apiary'
PathApiary == <<"/", "a", "p", "i", "a", "r", "y">>

Paths ==
    { PathRoot, PathDashboard, PathApi, PathApiData,
      PathApiDirect, PathApiPoll, PathFavicon, PathNextStatic,
      PathApiary }

\* the alternatives of the matcher's negative lookahead; a point stands for any
\* character, and `api/.*` starts with 'api/'
Excluded ==
    { <<"_", "n", "e", "x", "t", "/", "s", "t", "a", "t", "i", "c">>,
      <<"_", "n", "e", "x", "t", "/", "i", "m", "a", "g", "e">>,
      <<"f", "a", "v", "i", "c", "o", "n", ".", "i", "c", "o">>,
      <<"r", "o", "b", "o", "t", "s", ".", "t", "x", "t">>,
      <<"s", "i", "t", "e", "m", "a", "p", ".", "x", "m", "l">>,
      <<"a", "p", "i", "/">> }

\* s starts with the pattern
StartsWithPattern(s, pat) ==
    /\ Len(s) >= Len(pat)
    /\ \A i \in 1..Len(pat) : pat[i] = "." \/ pat[i] = s[i]

\* config.matcher: the middleware runs for the paths '/' + rest where rest
\* starts with none of the excluded alternatives
Matcher(path) ==
    /\ path # <<>>
    /\ path[1] = "/"
    /\ \A pat \in Excluded : ~StartsWithPattern(Tail(path), pat)

\* values of process.env.AUTH_CODE and of the request's code parameter (Null:
\* not set, not given)
AuthCodes == {Null, "", "open-sesame"}
Codes == {Null, "", "open-sesame", "Open-Sesame", "other"}

\* variant: a request without a code passes
MiddlewareMissingPasses(requiredCode, code) ==
    IF ~Truthy(requiredCode) THEN "next"
    ELSE IF code = requiredCode \/ code = Null THEN "next"
    ELSE "401"

\* middleware(request)
Middleware(requiredCode, code) ==
    IF ~Truthy(requiredCode) THEN "next"
    ELSE IF code = requiredCode THEN "next"
    ELSE "401"

\* variant: the loop condition is off by one (length > bound + 1)
RECURSIVE ShiftWhileOverPlusOne(_, _)
ShiftWhileOverPlusOne(items, bound) ==
    IF Len(items) > bound + 1 THEN ShiftWhileOverPlusOne(Tail(items), bound) ELSE items

\* variant: pop() in place of shift(), the newest point goes first
RECURSIVE PopWhileOver(_, _)
PopWhileOver(items, bound) ==
    IF Len(items) > bound THEN PopWhileOver(SubSeq(items, 1, Len(items) - 1), bound)
    ELSE items

\* variant: the loop condition is length >= bound
RECURSIVE ShiftWhileAtLeast(_, _)
ShiftWhileAtLeast(items, bound) ==
    IF items # <<>> /\ Len(items) >= bound THEN ShiftWhileAtLeast(Tail(items), bound)
    ELSE items

\* Array.prototype.shift applied while the length exceeds the bound
RECURSIVE ShiftWhileOver(_, _)
ShiftWhileOver(items, bound) ==
    IF Len(items) > bound THEN ShiftWhileOver(Tail(items), bound) ELSE items

\* variant: slice(0, n), the oldest n points are kept
SliceFirst(items, n) == SubSeq(items, 1, IF n < Len(items) THEN n ELSE Len(items))

\* variant: slice(n), the sign of the start is lost
SliceFrom(items, n) == SubSeq(items, (IF n < Len(items) THEN n ELSE Len(items)) + 1, Len(items))

\* Array.prototype.slice(-n): a relative start of -n counts from the end when
\* it is negative, and is the start index 0 when n is 0
SliceLast(items, n) ==
    LET len == Len(items)
        start == IF -n < 0 THEN (IF len - n > 0 THEN len - n ELSE 0)
                 ELSE (IF -n < len THEN -n ELSE len)
    IN  SubSeq(items, start + 1, len)

\* variant: the comparison reads the wrong field of the stored point
HasMessageIdBySent(items, messageId) ==
    \E i \in 1..Len(items) : items[i].sent = messageId

\* items.some((item) => item.messageId === messageId)
HasMessageId(items, messageId) ==
    \E i \in 1..Len(items) : items[i].messageId = messageId

\* prevData.some((symbolData) => symbolData.items.some(...))
MessageIdExists(prevData, messageId) ==
    \E s \in 1..Len(prevData) : HasMessageId(prevData[s].items, messageId)

\* variant: the timeframe is left out of the comparison
FindIndexBySymbol(newData, item) ==
    LET hits == { i \in 1..Len(newData) : newData[i].symbol = item.symbol }
    IN  IF hits = {} THEN 0 ELSE CHOOSE i \in hits : \A j \in hits : i <= j

\* newData.findIndex((d) => d.symbol === item.symbol && d.timeframe === item.timeframe)
FindIndex(newData, item) ==
    LET hits == { i \in 1..Len(newData) :
                    newData[i].symbol = item.symbol /\ newData[i].timeframe = item.timeframe }
    IN  IF hits = {} THEN 0 ELSE CHOOSE i \in hits : \A j \in hits : i <= j

MessageItem(result, item) ==
    [sent |-> result.sent, price |-> item.price, count |-> item.count,
     levels |-> item.levels, messageId |-> result.messageId]

\* variant: a later record of the same message overwrites the stored point
UpsertItemOverwrite(newData, result, item, bound) ==
    LET hits == { i \in 1..Len(newData) :
                    newData[i].symbol = item.symbol /\ newData[i].timeframe = item.timeframe }
        existingIndex == IF hits = {} THEN 0 ELSE CHOOSE i \in hits : \A j \in hits : i <= j
        messageItem == [sent |-> result.sent, price |-> item.price, count |-> item.count,
                        levels |-> item.levels, messageId |-> result.messageId]
    IN  IF existingIndex >= 1
        THEN IF \E i \in 1..Len(newData[existingIndex].items) :
                    newData[existingIndex].items[i].messageId = result.messageId
             THEN [newData EXCEPT ![existingIndex].items =
                       [i \in 1..Len(@) |->
                           IF @[i].messageId = result.messageId THEN messageItem ELSE @[i]]]
             ELSE [newData EXCEPT ![existingIndex].items =
                       ShiftWhileOver(Append(@, messageItem), bound)]
        ELSE Append(newData, [symbol |-> item.symbol, timeframe |-> item.timeframe,
                              items |-> <<messageItem>>])

\* variant: a new series is put in front (unshift in place of push)
UpsertItemPrepends(newData, result, item, bound) ==
    LET hits == { i \in 1..Len(newData) :
                    newData[i].symbol = item.symbol /\ newData[i].timeframe = item.timeframe }
        existingIndex == IF hits = {} THEN 0 ELSE CHOOSE i \in hits : \A j \in hits : i <= j
        messageItem == [sent |-> result.sent, price |-> item.price, count |-> item.count,
                        levels |-> item.levels, messageId |-> result.messageId]
    IN  IF existingIndex >= 1
        THEN IF ~HasMessageId(newData[existingIndex].items, messageItem.messageId)
             THEN [newData EXCEPT ![existingIndex].items =
                       ShiftWhileOver(Append(@, messageItem), bound)]
             ELSE newData
        ELSE <<[symbol |-> item.symbol, timeframe |-> item.timeframe,
                items |-> <<messageItem>>]>> \o newData

\* body of result.items.forEach for one record
UpsertItem(newData, result, item, bound) ==
    LET existingIndex == FindIndex(newData, item)
        messageItem == MessageItem(result, item)
    IN  IF existingIndex >= 1
        THEN IF ~HasMessageId(newData[existingIndex].items, messageItem.messageId)
             THEN [newData EXCEPT ![existingIndex].items =
                       ShiftWhileOver(Append(@, messageItem), bound)]
             ELSE newData
        ELSE Append(newData, [symbol |-> item.symbol, timeframe |-> item.timeframe,
                              items |-> <<messageItem>>])

RECURSIVE ForEachItem(_, _, _, _)
ForEachItem(newData, result, items, bound) ==
    IF items = <<>> THEN newData
    ELSE ForEachItem(UpsertItem(newData, result, Head(items), bound),
                     result, Tail(items), bound)

\* the updater handed to setData by fetchData
AbsorbUpdater(prevData, result, bound) ==
    IF MessageIdExists(prevData, result.messageId) THEN prevData
    ELSE ForEachItem(prevData, result, result.items, bound)

\* prevData as the updater leaves it: newData = [...prevData] copies the array
\* and shares the series objects, so push and shift on newData[i].items act on
\* prevData[i].items too, while a series pushed to newData is not in prevData
PrevAfterUpdater(prevData, result, bound) ==
    SubSeq(AbsorbUpdater(prevData, result, bound), 1, Len(prevData))

\* the condition guarding the absorb in fetchData
GatePasses(seen, result) ==
    /\ Truthy(result.messageId)
    /\ result.messageId \notin seen
    /\ Truthy(result.sent)

\* variant: no deduplication at all, every record of every response is pushed
RECURSIVE PushEvery(_, _, _, _)
PushEvery(newData, result, items, bound) ==
    IF items = <<>> THEN newData
    ELSE LET item == Head(items)
             hits == { i \in 1..Len(newData) :
                         newData[i].symbol = item.symbol
                         /\ newData[i].timeframe = item.timeframe }
             point == [sent |-> result.sent, price |-> item.price, count |-> item.count,
                       levels |-> item.levels, messageId |-> result.messageId]
             pushed == IF hits = {}
                       THEN Append(newData, [symbol |-> item.symbol,
                                             timeframe |-> item.timeframe,
                                             items |-> <<point>>])
                       ELSE LET e == CHOOSE i \in hits : \A j \in hits : i <= j
                            IN  [newData EXCEPT ![e].items =
                                    ShiftWhileOver(Append(@, point), bound)]
         IN  PushEvery(pushed, result, Tail(items), bound)

AbsorbUnguarded(prevData, seen, result, bound) ==
    IF Truthy(result.messageId) /\ Truthy(result.sent)
    THEN [data |-> PushEvery(prevData, result, result.items, bound),
          seen |-> seen \cup {result.messageId}]
    ELSE [data |-> prevData, seen |-> seen]

\* variant: the id is recorded before result.sent is looked at
AbsorbMarksFirst(prevData, seen, result, bound) ==
    IF Truthy(result.messageId) /\ result.messageId \notin seen
    THEN [data |-> IF Truthy(result.sent)
                   THEN AbsorbUpdater(prevData, result, bound) ELSE prevData,
          seen |-> seen \cup {result.messageId}]
    ELSE [data |-> prevData, seen |-> seen]

\* variant: the id is never added to the ref
AbsorbForgetsAdd(prevData, seen, result, bound) ==
    IF GatePasses(seen, result)
    THEN [data |-> AbsorbUpdater(prevData, result, bound), seen |-> seen]
    ELSE [data |-> prevData, seen |-> seen]

\* variant: the ref is replaced by a new Set holding the id alone
AbsorbResetsSeen(prevData, seen, result, bound) ==
    IF GatePasses(seen, result)
    THEN [data |-> AbsorbUpdater(prevData, result, bound), seen |-> {result.messageId}]
    ELSE [data |-> prevData, seen |-> seen]

\* variant: result.sent is added to the ref in place of the id
AbsorbAddsSent(prevData, seen, result, bound) ==
    IF GatePasses(seen, result)
    THEN [data |-> AbsorbUpdater(prevData, result, bound), seen |-> seen \cup {result.sent}]
    ELSE [data |-> prevData, seen |-> seen]

\* variant: an envelope without records is not recorded
AbsorbSkipsEmpty(prevData, seen, result, bound) ==
    IF GatePasses(seen, result) /\ result.items # <<>>
    THEN [data |-> AbsorbUpdater(prevData, result, bound),
          seen |-> seen \cup {result.messageId}]
    ELSE [data |-> prevData, seen |-> seen]

\* fetchData from the guarding condition to the end of the setData updater: the
\* id is added to the ref, then the updater runs on the collection
Absorb(prevData, seen, result, bound) ==
    IF GatePasses(seen, result)
    THEN [data |-> AbsorbUpdater(prevData, result, bound),
          seen |-> seen \cup {result.messageId}]
    ELSE [data |-> prevData, seen |-> seen]

\* some series that existed before lost its oldest point
Evicts(before, after) ==
    \E i \in 1..Len(before) :
        /\ before[i].items # <<>>
        /\ (after[i].items = <<>> \/ Head(after[i].items) # Head(before[i].items))

\* label of a completed cycle, for the history variable
GateVerdict(prevData, seen, result, bound) ==
    IF GatePasses(seen, result)
    THEN (IF Evicts(prevData, Absorb(prevData, seen, result, bound).data)
          THEN "absorb-evict" ELSE "absorb")
    ELSE IF ~Truthy(result.messageId) THEN "reject-no-id"
    ELSE IF result.messageId \in seen THEN "reject-seen"
    ELSE "reject-no-sent"

\* the updater handed to setData by the trim effect
TrimUpdater(prev, bound) ==
    [i \in 1..Len(prev) |-> [prev[i] EXCEPT !.items = SliceLast(@, bound)]]

\* ------------------------------------------------------------ bookkeeping
RECURSIVE SumOver(_, _)
SumOver(f, S) ==
    IF S = {} THEN 0
    ELSE LET x == CHOOSE y \in S : TRUE IN f[x] + SumOver(f, S \ {x})

Pending == SumOver(inFlight, DOMAIN inFlight)

Launch(fl, bound) == [fl EXCEPT ![bound] = @ + 1]
Land(fl, bound) == [fl EXCEPT ![bound] = @ - 1]

\* ------------------------------------------------------------------- Init
\* the state after the first render and its effects: the polling effect has
\* called fetchData() once and armed the interval, the trim effect has run
\* on the empty collection
Init ==
    /\ data = <<>>
    /\ lastUpdated = Null
    /\ latestMessageData = <<>>
    /\ seenMessageIds = {}
    /\ loading = TRUE
    /\ maxMessages = InitialMaxMessages
    /\ inFlight = Launch([b \in BoundOptions |-> 0], InitialMaxMessages)
    /\ lastOp = "mount"
    /\ messageBody = <<>>
    /\ parsedItems = <<>>
    /\ cleanedBody = NoCleanedBody
    /\ rawMatrix = <<>>
    /\ polling = Mounted
    /\ blob = NoBlob
    /\ gate = NoRequest

\* ---------------------------------------------------------------- actions
\* setInterval(fetchData, 5000) fires: fetchData of the current effect starts
IntervalTick ==
    /\ polling.timers >= 1
    /\ Pending < MaxInFlight
    /\ inFlight' = Launch(inFlight, maxMessages)
    /\ lastOp' = "tick"
    /\ UNCHANGED <<data, lastUpdated, latestMessageData, seenMessageIds, loading,
                   maxMessages, messageBody, parsedItems,
                   cleanedBody, rawMatrix,
                   polling, blob, gate>>

\* fetchData resumes with res.ok and the parsed body `result`
FetchOk(bound, result) ==
    /\ inFlight[bound] > 0
    /\ inFlight' = Land(inFlight, bound)
    /\ latestMessageData' = result.items
    /\ lastUpdated' = result.lastUpdated
    /\ seenMessageIds' = Absorb(data, seenMessageIds, result, bound).seen
    /\ data' = Absorb(data, seenMessageIds, result, bound).data
    /\ loading' = FALSE
    /\ lastOp' = GateVerdict(data, seenMessageIds, result, bound)
    /\ UNCHANGED <<maxMessages, messageBody, parsedItems,
                   cleanedBody, rawMatrix,
                   polling, blob, gate>>

\* variant: the body is read without looking at res.ok
FetchNotOkReadsBody(bound, body) ==
    /\ inFlight[bound] > 0
    /\ inFlight' = Land(inFlight, bound)
    /\ latestMessageData' = body.items
    /\ lastUpdated' = body.lastUpdated
    /\ seenMessageIds' = Absorb(data, seenMessageIds, body, bound).seen
    /\ data' = Absorb(data, seenMessageIds, body, bound).data
    /\ loading' = FALSE
    /\ lastOp' = "notok"
    /\ UNCHANGED <<maxMessages, messageBody, parsedItems,
                   cleanedBody, rawMatrix,
                   polling, blob, gate>>

\* fetchData resumes with a response whose ok is false (the route's 500 and its
\* error body, which is not read)
FetchNotOk(bound, body) ==
    /\ inFlight[bound] > 0
    /\ inFlight' = Land(inFlight, bound)
    /\ loading' = FALSE
    /\ lastOp' = "notok"
    /\ UNCHANGED <<data, lastUpdated, latestMessageData, seenMessageIds, maxMessages,
                   messageBody, parsedItems,
                   cleanedBody, rawMatrix,
                   polling, blob, gate>>

\* fetch or res.json() rejects: the catch block logs, finally clears loading
FetchThrows(bound) ==
    /\ inFlight[bound] > 0
    /\ inFlight' = Land(inFlight, bound)
    /\ loading' = FALSE
    /\ lastOp' = "throw"
    /\ UNCHANGED <<data, lastUpdated, latestMessageData, seenMessageIds, maxMessages,
                   messageBody, parsedItems,
                   cleanedBody, rawMatrix,
                   polling, blob, gate>>

\* variant: the effect has no cleanup, the old interval stays armed
SetMaxMessagesKeepsTimer(n) ==
    /\ polling.mounted
    /\ lastOp' = IF n = maxMessages THEN "rebound-same"
                 ELSE IF TrimUpdater(data, n) # data THEN "rebound-trim"
                 ELSE "rebound"
    /\ IF n = maxMessages
       THEN UNCHANGED <<data, maxMessages, inFlight, polling>>
       ELSE /\ Pending < MaxInFlight
            /\ maxMessages' = n
            /\ polling' = [polling EXCEPT !.timers = @ + 1]
            /\ inFlight' = Launch(inFlight, n)
            /\ data' = TrimUpdater(data, n)
    /\ UNCHANGED <<lastUpdated, latestMessageData, seenMessageIds, loading,
                   messageBody, parsedItems, cleanedBody, rawMatrix, blob, gate>>

\* onChange of the selector: setMaxMessages(Number(e.target.value)).  An equal
\* value is a bail-out (no render, no effect).  A different one re-renders:
\* the polling effect is cleaned up and run again (a fetchData of the new
\* closure starts, a new interval is armed), then the trim effect runs.
SetMaxMessages(n) ==
    /\ polling.mounted
    /\ lastOp' = IF n = maxMessages THEN "rebound-same"
                 ELSE IF TrimUpdater(data, n) # data THEN "rebound-trim"
                 ELSE "rebound"
    /\ IF n = maxMessages
       THEN UNCHANGED <<data, maxMessages, inFlight, polling>>
       ELSE /\ Pending < MaxInFlight
            /\ maxMessages' = n
            /\ polling' = [polling EXCEPT !.timers = (@ - 1) + 1]
            /\ inFlight' = Launch(inFlight, n)
            /\ data' = TrimUpdater(data, n)
    /\ UNCHANGED <<lastUpdated, latestMessageData, seenMessageIds, loading,
                   messageBody, parsedItems, cleanedBody, rawMatrix, blob, gate>>

Next ==
    \/ IntervalTick
    \/ \E b \in BoundOptions : \E r \in OkBodies : FetchOk(b, r)
    \/ \E b \in BoundOptions : FetchNotOk(b, ErrorBody)
    \/ \E b \in BoundOptions : FetchThrows(b)
    \/ \E n \in BoundOptions : SetMaxMessages(n)

Spec == Init /\ [][Next]_vars

\* The same component driven by a caller that serialises the cycles: the
\* interval fires, and the selector is changed, only when no cycle is pending.
SerialTick == Pending = 0 /\ IntervalTick

SerialSetMaxMessages(n) == Pending = 0 /\ SetMaxMessages(n)

NextSerial ==
    \/ SerialTick
    \/ \E b \in BoundOptions : \E r \in OkBodies : FetchOk(b, r)
    \/ \E b \in BoundOptions : FetchNotOk(b, ErrorBody)
    \/ \E b \in BoundOptions : FetchThrows(b)
    \/ \E n \in BoundOptions : SerialSetMaxMessages(n)

SpecSerial == Init /\ [][NextSerial]_vars

\* The route on its own: a message body arrives and GET parses it.  The page's
\* state stays as mounted.
InitParser ==
    /\ data = <<>>
    /\ lastUpdated = Null
    /\ latestMessageData = <<>>
    /\ seenMessageIds = {}
    /\ loading = TRUE
    /\ maxMessages = InitialMaxMessages
    /\ inFlight = Launch([b \in BoundOptions |-> 0], InitialMaxMessages)
    /\ lastOp = "mount"
    /\ messageBody \in Bodies
    /\ parsedItems = <<>>
    /\ cleanedBody = NoCleanedBody
    /\ rawMatrix = <<>>
    /\ polling = Mounted
    /\ blob = NoBlob
    /\ gate = NoRequest

\* const items = parseEmailBody(body)
ParseBody ==
    /\ lastOp = "mount"
    /\ parsedItems' = ParseEmailBody(messageBody)
    /\ lastOp' = "parse"
    /\ UNCHANGED <<data, lastUpdated, latestMessageData, seenMessageIds, loading,
                   maxMessages, inFlight, messageBody, cleanedBody, rawMatrix,
                   polling, blob, gate>>

\* the page renders the matrix of the items it got
RenderMatrix ==
    /\ lastOp = "parse"
    /\ \A i \in 1..Len(parsedItems) : AllFinite(parsedItems[i])
    /\ rawMatrix' = GenerateRawMatrix(parsedItems)
    /\ lastOp' = "render"
    /\ UNCHANGED <<data, lastUpdated, latestMessageData, seenMessageIds, loading,
                   maxMessages, inFlight, messageBody, parsedItems, cleanedBody,
                   polling, blob, gate>>

\* the render throws on a number that arrived as null
RenderThrows ==
    /\ lastOp = "parse"
    /\ \E i \in 1..Len(parsedItems) : ~AllFinite(parsedItems[i])
    /\ lastOp' = "render-throw"
    /\ UNCHANGED <<data, lastUpdated, latestMessageData, seenMessageIds, loading,
                   maxMessages, inFlight, messageBody, parsedItems, cleanedBody, rawMatrix,
                   polling, blob, gate>>

NextParser ==
    \/ ParseBody
    \/ RenderMatrix
    \/ RenderThrows


SpecParser == InitParser /\ [][NextParser]_vars

\* GET of the route, from the mail API's answer to the response
InitRoute ==
    /\ data = <<>>
    /\ lastUpdated = Null
    /\ latestMessageData = <<>>
    /\ seenMessageIds = {}
    /\ loading = TRUE
    /\ maxMessages = InitialMaxMessages
    /\ inFlight = Launch([b \in BoundOptions |-> 0], InitialMaxMessages)
    /\ lastOp = "mount"
    /\ messageBody = <<>>
    /\ parsedItems = <<>>
    /\ cleanedBody \in CleanedBodies
    /\ rawMatrix = <<>>
    /\ polling = Mounted
    /\ blob = NoBlob
    /\ gate = NoRequest

\* the body is a string: it is parsed and the response is 200 with the items
GetOk ==
    /\ lastOp = "mount"
    /\ ~ParseThrows(FetchLatestMessageBody(cleanedBody))
    /\ messageBody' = FetchLatestMessageBody(cleanedBody).text
    /\ parsedItems' = ParseEmailBody(messageBody')
    /\ lastOp' = "get-200"
    /\ UNCHANGED <<data, lastUpdated, latestMessageData, seenMessageIds, loading,
                   maxMessages, inFlight, cleanedBody, rawMatrix,
                   polling, blob, gate>>

\* parseEmailBody throws, the catch block answers 500 with the error body
GetParseThrows ==
    /\ lastOp = "mount"
    /\ ParseThrows(FetchLatestMessageBody(cleanedBody))
    /\ lastOp' = "get-500-parse"
    /\ UNCHANGED <<data, lastUpdated, latestMessageData, seenMessageIds, loading,
                   maxMessages, inFlight, messageBody, parsedItems, cleanedBody, rawMatrix,
                   polling, blob, gate>>

\* the mail API answers with a status that is not ok: fetchLatestMessageBody
\* throws, the catch block answers 500
GetFetchThrows ==
    /\ lastOp = "mount"
    /\ lastOp' = "get-500-fetch"
    /\ UNCHANGED <<data, lastUpdated, latestMessageData, seenMessageIds, loading,
                   maxMessages, inFlight, messageBody, parsedItems, cleanedBody, rawMatrix,
                   polling, blob, gate>>

NextRoute ==
    \/ GetOk
    \/ GetParseThrows
    \/ GetFetchThrows

SpecRoute == InitRoute /\ [][NextRoute]_vars

\* The component with a selector that offers 0 as well, driven serially: the
\* state is a number, and 0 is a value setMaxMessages accepts.
ZeroOptions == BoundOptions \cup {0}

InitZero ==
    /\ data = <<>>
    /\ lastUpdated = Null
    /\ latestMessageData = <<>>
    /\ seenMessageIds = {}
    /\ loading = TRUE
    /\ maxMessages = InitialMaxMessages
    /\ inFlight = Launch([b \in ZeroOptions |-> 0], InitialMaxMessages)
    /\ lastOp = "mount"
    /\ messageBody = <<>>
    /\ parsedItems = <<>>
    /\ cleanedBody = NoCleanedBody
    /\ rawMatrix = <<>>
    /\ polling = Mounted
    /\ blob = NoBlob
    /\ gate = NoRequest

NextZero ==
    \/ SerialTick
    \/ \E b \in ZeroOptions : \E r \in OkBodies : FetchOk(b, r)
    \/ \E b \in ZeroOptions : FetchNotOk(b, ErrorBody)
    \/ \E b \in ZeroOptions : FetchThrows(b)
    \/ \E n \in ZeroOptions : SerialSetMaxMessages(n)

SpecZero == InitZero /\ [][NextZero]_vars

\* GET of the poll route, with latest.json absent or written by an earlier poll
InitPoll ==
    /\ data = <<>>
    /\ lastUpdated = Null
    /\ latestMessageData = <<>>
    /\ seenMessageIds = {}
    /\ loading = TRUE
    /\ maxMessages = InitialMaxMessages
    /\ inFlight = Launch([b \in BoundOptions |-> 0], InitialMaxMessages)
    /\ lastOp = "mount"
    /\ messageBody = <<>>
    /\ parsedItems = <<>>
    /\ cleanedBody \in CleanedBodies
    /\ rawMatrix = <<>>
    /\ polling = Mounted
    /\ blob \in {NoBlob, Snapshot(ParseEmailBody(LineDaily8))}
    /\ gate = NoRequest

\* id and body are fetched, the body is parsed, put succeeds: 200
PollOk ==
    /\ lastOp = "mount"
    /\ ~ParseThrows(FetchLatestMessageBody(cleanedBody))
    /\ messageBody' = FetchLatestMessageBody(cleanedBody).text
    /\ parsedItems' = ParseEmailBody(messageBody')
    /\ blob' = Snapshot(parsedItems')
    /\ lastOp' = "poll-200"
    /\ UNCHANGED <<data, lastUpdated, latestMessageData, seenMessageIds, loading,
                   maxMessages, inFlight, cleanedBody, rawMatrix, polling, gate>>

\* fetchLatestMessageId throws (the mail API's status is not ok): 500
PollIdFetchThrows ==
    /\ lastOp = "mount"
    /\ lastOp' = "poll-500-id"
    /\ UNCHANGED <<data, lastUpdated, latestMessageData, seenMessageIds, loading,
                   maxMessages, inFlight, messageBody, parsedItems, cleanedBody,
                   rawMatrix, polling, blob, gate>>

\* fetchLatestMessageBody throws: 500
PollBodyFetchThrows ==
    /\ lastOp = "mount"
    /\ lastOp' = "poll-500-body"
    /\ UNCHANGED <<data, lastUpdated, latestMessageData, seenMessageIds, loading,
                   maxMessages, inFlight, messageBody, parsedItems, cleanedBody,
                   rawMatrix, polling, blob, gate>>

\* variant: the blob is written before the body is parsed
PollParseThrowsWrites ==
    /\ lastOp = "mount"
    /\ ParseThrows(FetchLatestMessageBody(cleanedBody))
    /\ blob' = Snapshot(<<>>)
    /\ lastOp' = "poll-500-parse"
    /\ UNCHANGED <<data, lastUpdated, latestMessageData, seenMessageIds, loading,
                   maxMessages, inFlight, messageBody, parsedItems, cleanedBody,
                   rawMatrix, polling, gate>>

\* parseEmailBody throws, put is not reached: 500
PollParseThrows ==
    /\ lastOp = "mount"
    /\ ParseThrows(FetchLatestMessageBody(cleanedBody))
    /\ lastOp' = "poll-500-parse"
    /\ UNCHANGED <<data, lastUpdated, latestMessageData, seenMessageIds, loading,
                   maxMessages, inFlight, messageBody, parsedItems, cleanedBody,
                   rawMatrix, polling, blob, gate>>

\* put rejects after the parse: 500, and the store has the new blob or has not
PollPutThrows ==
    /\ lastOp = "mount"
    /\ ~ParseThrows(FetchLatestMessageBody(cleanedBody))
    /\ messageBody' = FetchLatestMessageBody(cleanedBody).text
    /\ parsedItems' = ParseEmailBody(messageBody')
    /\ blob' \in {blob, Snapshot(parsedItems')}
    /\ lastOp' = "poll-500-put"
    /\ UNCHANGED <<data, lastUpdated, latestMessageData, seenMessageIds, loading,
                   maxMessages, inFlight, cleanedBody, rawMatrix, polling, gate>>

NextPoll ==
    \/ PollOk
    \/ PollIdFetchThrows
    \/ PollBodyFetchThrows
    \/ PollParseThrows
    \/ PollPutThrows

SpecPoll == InitPoll /\ [][NextPoll]_vars

\* A request comes in: the middleware runs if the matcher takes the path, and
\* the request reaches its page or route handler unless it was answered 401.
InitGate ==
    /\ data = <<>>
    /\ lastUpdated = Null
    /\ latestMessageData = <<>>
    /\ seenMessageIds = {}
    /\ loading = TRUE
    /\ maxMessages = InitialMaxMessages
    /\ inFlight = Launch([b \in BoundOptions |-> 0], InitialMaxMessages)
    /\ lastOp = "mount"
    /\ messageBody = <<>>
    /\ parsedItems = <<>>
    /\ cleanedBody = NoCleanedBody
    /\ rawMatrix = <<>>
    /\ polling = Mounted
    /\ blob = NoBlob
    /\ gate \in { [authCode |-> a, path |-> p, code |-> c, response |-> "none"] :
                    a \in AuthCodes, p \in Paths, c \in Codes }

HandleRequest ==
    /\ gate.response = "none"
    /\ gate' = [gate EXCEPT !.response =
                   IF Matcher(gate.path) /\ Middleware(gate.authCode, gate.code) = "401"
                   THEN "401" ELSE "handler"]
    /\ lastOp' = "request"
    /\ UNCHANGED <<data, lastUpdated, latestMessageData, seenMessageIds, loading,
                   maxMessages, inFlight, messageBody, parsedItems, cleanedBody,
                   rawMatrix, polling, blob>>

NextGate == HandleRequest

SpecGate == InitGate /\ [][NextGate]_vars

\* Home until it is unmounted: the cleanup of the polling effect clears its
\* interval; after that the component's state is gone
Unmount ==
    /\ polling.mounted
    /\ polling' = [mounted |-> FALSE, timers |-> polling.timers - 1]
    /\ lastOp' = "unmount"
    /\ UNCHANGED <<data, lastUpdated, latestMessageData, seenMessageIds, loading,
                   maxMessages, inFlight, messageBody, parsedItems, cleanedBody,
                   rawMatrix, blob, gate>>

NextTimer ==
    \/ polling.mounted /\ Next
    \/ Unmount

SpecTimer == Init /\ [][NextTimer]_vars

TypeOK ==
    /\ maxMessages \in BoundOptions
    /\ seenMessageIds \subseteq MessageIds
    /\ Pending <= MaxInFlight

\* ------------------------------------------------- vocabulary of the claims
Min(a, b) == IF a < b THEN a ELSE b

\* the last n elements of a sequence (all of it when it is shorter)
Trailing(n, q) == SubSeq(q, Len(q) - Min(n, Len(q)) + 1, Len(q))

SameKey(a, b) == a.symbol = b.symbol /\ a.timeframe = b.timeframe

\* the record of a list that comes first among those with the key of `k`
FirstWithKey(items, k) ==
    items[CHOOSE i \in 1..Len(items) :
            /\ SameKey(items[i], k)
            /\ \A j \in 1..(i - 1) : ~SameKey(items[j], k)]

CarriesKey(items, k) == \E i \in 1..Len(items) : SameKey(items[i], k)

\* the point the claims expect for key k of envelope r
ExpectedPoint(r, k) ==
    LET first == FirstWithKey(r.items, k)
    IN  [sent |-> r.sent, messageId |-> r.messageId, price |-> first.price,
         count |-> first.count, levels |-> first.levels]

\* q is p with some elements removed from its front
IsSuffixOf(q, p) == Len(q) <= Len(p) /\ q = Trailing(Len(q), p)

\* a response that was accepted by the gate has just been absorbed
Absorbed == lastOp \in {"absorb", "absorb-evict"}

\* the bounds a cycle completing from this state may hold in its closure
CycleBounds == {b \in BoundOptions : inFlight[b] > 0} \cup {maxMessages}

\* the envelope-level rejections of the specification
Rejected(d, seen, r) ==
    \/ r.messageId \in seen
    \/ \E i \in 1..Len(d) : \E j \in 1..Len(d[i].items) :
          d[i].items[j].messageId = r.messageId
    \/ r.messageId = Null
    \/ r.sent = Null

\* -------------------------------------------------------------------- C1
\* C1: when cycles and bound changes do not overlap and maxMessages >= 1,
\* every series holds at most maxMessages points.
BoundInvariant ==
    maxMessages >= 1 =>
        \A i \in 1..Len(data) : Len(data[i].items) <= maxMessages

\* an absorb has just evicted from a series that is now exactly full
BoundWitness ==
    /\ lastOp = "absorb-evict"
    /\ \E i \in 1..Len(data) : Len(data[i].items) = maxMessages

\* -------------------------------------------------------------------- C2
\* C2: absorbing an envelope a second time, right after absorbing it, leaves
\* every series as the first absorb left it, whichever of the bounds a cycle
\* can hold in this state (a pending closure's, or the current one) each of
\* the two absorbs applies.
AbsorbIdempotent ==
    \A r \in OkBodies : \A b1 \in CycleBounds : \A b2 \in CycleBounds :
        LET once == Absorb(data, seenMessageIds, r, b1)
            twice == Absorb(once.data, once.seen, r, b2)
        IN  twice.data = once.data

\* a repeated envelope has just been turned away while series exist and a
\* fresh envelope with records could still be absorbed
IdempotentWitness ==
    /\ lastOp = "reject-seen"
    /\ data # <<>>
    /\ latestMessageData # <<>>
    /\ \E r \in OkBodies :
          Absorb(data, seenMessageIds, r, maxMessages).data # data

\* -------------------------------------------------------------------- C3
\* C3: within one series no two points have the same messageId.
UniqueMessageIds ==
    \A s \in 1..Len(data) :
        \A i \in 1..Len(data[s].items) : \A j \in 1..Len(data[s].items) :
            i # j => data[s].items[i].messageId # data[s].items[j].messageId

\* an envelope with two records of one key was absorbed into a series that
\* already existed
UniqueWitness ==
    /\ Absorbed
    /\ latestMessageData = <<ItemB, ItemA>>
    /\ \E s \in 1..Len(data) : SameKey(data[s], ItemA) /\ Len(data[s].items) >= 2

ReboundIdempotent ==
    [][ \A n \in BoundOptions :
            SetMaxMessages(n) =>
                /\ n = maxMessages => (data' = data /\ maxMessages' = maxMessages)
                /\ n # maxMessages => TrimUpdater(data', n) = data' ]_vars

\* the bound has just been set to its own value while a series is full
ReboundSameWitness ==
    /\ lastOp = "rebound-same"
    /\ \E i \in 1..Len(data) : Len(data[i].items) = maxMessages /\ maxMessages >= 2

\* -------------------------------------------------------------------- C7
\* C7: there is one series per (symbol, timeframe) at most, and each point of
\* a series carries the values of a record of that series' key.
KeyPartition ==
    /\ \A i \in 1..Len(data) : \A j \in 1..Len(data) :
          i # j => ~SameKey(data[i], data[j])
    /\ \A i \in 1..Len(data) : \A j \in 1..Len(data[i].items) :
          \E item \in MatrixItems :
              /\ SameKey(item, data[i])
              /\ item.price = data[i].items[j].price
              /\ item.count = data[i].items[j].count
              /\ item.levels = data[i].items[j].levels

\* three keys are present, two of them sharing the symbol and two the timeframe
PartitionWitness ==
    /\ Absorbed
    /\ Len(data) = 3
    /\ \E i \in 1..Len(data) : Len(data[i].items) >= 2

\* -------------------------------------------------------------------- C8
\* C8: after an absorb with a bound >= 1, the series of every key of the
\* envelope ends with the envelope's id and sent and the values of the first
\* record of that key; the points before it are the old ones less a front.
AbsorbAppendsLast ==
    [][ Absorbed' =>
        \A b \in BoundOptions : \A r \in OkBodies :
            (FetchOk(b, r) /\ ~Rejected(data, seenMessageIds, r)
                /\ b >= 1 /\ maxMessages >= 1) =>
                \A k \in 1..Len(r.items) :
                    \E i \in 1..Len(data') :
                        /\ SameKey(data'[i], r.items[k])
                        /\ data'[i].items # <<>>
                        /\ data'[i].items[Len(data'[i].items)] =
                               ExpectedPoint(r, r.items[k])
                        /\ IsSuffixOf(SubSeq(data'[i].items, 1, Len(data'[i].items) - 1),
                                      IF i <= Len(data) THEN data[i].items ELSE <<>>) ]_vars

\* the two-record envelope was absorbed and the first record's price is last
AppendWitness ==
    /\ Absorbed
    /\ latestMessageData = <<ItemB, ItemA>>
    /\ \E i \in 1..Len(data) :
          /\ Len(data[i].items) >= 2
          /\ data[i].items[Len(data[i].items)].price = ItemB.price

\* -------------------------------------------------------------------- C9
\* C9: a response turned away by the gate (id seen, id stored in a point, id
\* missing, sent missing) changes neither the series, nor the seen ids, nor
\* the bound.
RejectLeavesState ==
    [][ (data' # data \/ seenMessageIds' # seenMessageIds \/ maxMessages' # maxMessages) =>
            \A b \in BoundOptions : \A r \in OkBodies :
                FetchOk(b, r) => ~Rejected(data, seenMessageIds, r) ]_vars

\* a response with an id and no sent was turned away while series exist and
\* an id is still unseen
RejectWitness ==
    /\ lastOp = "reject-no-sent"
    /\ data # <<>>
    /\ seenMessageIds # MessageIds

\* ------------------------------------------------------------------- C10
\* C10: a cycle that ends in a non-OK response or in a thrown error changes
\* neither the series, nor the seen ids, nor the latest record list, nor
\* lastUpdated.
FailureChangesNothing ==
    [][ \A b \in BoundOptions :
            (FetchNotOk(b, ErrorBody) \/ FetchThrows(b)) =>
                UNCHANGED <<data, seenMessageIds, latestMessageData, lastUpdated>> ]_vars

\* a cycle has just failed with a 500 while there is state to lose
FailureWitness ==
    /\ lastOp = "notok"
    /\ data # <<>>
    /\ latestMessageData # <<>>
    /\ lastUpdated # Null

\* ------------------------------------------------------------------- C11
\* C11: the latest record list is the batch of the most recently absorbed
\* envelope: it changes only in a step that absorbs a response, so a response
\* turned away by the gate leaves it as it was.
LatestReflectsAbsorbed ==
    [][ latestMessageData' # latestMessageData =>
            \E b \in BoundOptions : \E r \in OkBodies :
                /\ FetchOk(b, r)
                /\ ~Rejected(data, seenMessageIds, r)
                /\ latestMessageData' = r.items ]_vars

\* ------------------------------------------------------------------- C12
\* C12: no cycle is started while another one is pending.
AtMostOneInFlight == Pending <= 1

\* ------------------------------------------------------------------- C13
\* C13: when two pending cycles both answer with one messageId, whichever
\* lands first absorbs it and the other changes nothing: no series holds two
\* points of that id, and the collection is the one the first absorb left.
TwoCycles(b1, b2) ==
    /\ inFlight[b1] > 0
    /\ inFlight[b2] > 0
    /\ (b1 = b2 => inFlight[b1] >= 2)

AbsorbedOnceUnderOverlap ==
    \A b1 \in BoundOptions : \A b2 \in BoundOptions :
        TwoCycles(b1, b2) =>
            \A r1 \in OkBodies : \A r2 \in OkBodies :
                (GatePasses(seenMessageIds, r1) /\ r1.messageId = r2.messageId) =>
                    LET first == Absorb(data, seenMessageIds, r1, b1)
                        second == Absorb(first.data, first.seen, r2, b2)
                    IN  /\ second.data = first.data
                        /\ \A s \in 1..Len(second.data) :
                              Cardinality({ i \in 1..Len(second.data[s].items) :
                                  second.data[s].items[i].messageId = r1.messageId }) <= 1

\* two cycles with different closures are pending, a series is full and an id
\* is still unseen
OverlapWitness ==
    /\ \E b1 \in BoundOptions : \E b2 \in BoundOptions : b1 # b2 /\ TwoCycles(b1, b2)
    /\ \E i \in 1..Len(data) : Len(data[i].items) >= maxMessages
    /\ seenMessageIds # MessageIds
    /\ seenMessageIds # {}

\* ------------------------------------------------------------------- C14
\* C14: the updater leaves the collection it was given as it was, so running
\* it again on that collection gives the same result.
ReducerPure ==
    \A b \in CycleBounds : \A r \in OkBodies :
        GatePasses(seenMessageIds, r) =>
            /\ PrevAfterUpdater(data, r, b) = data
            /\ AbsorbUpdater(PrevAfterUpdater(data, r, b), r, b) = AbsorbUpdater(data, r, b)

\* ------------------------------------------------------------------- C15
\* C15: no step removes an id from the seen set.
SeenMonotone == [][ seenMessageIds \subseteq seenMessageIds' ]_vars

\* every id has been seen and a cycle has just failed
SeenWitness ==
    /\ seenMessageIds = MessageIds
    /\ lastOp \in {"throw", "notok"}
    /\ data # <<>>

\* ------------------------------------------------------------------- C16
\* C16: every step keeps each series at its place in the collection; new
\* series come after the existing ones.
SeriesKeptInOrder ==
    [][ /\ Len(data') >= Len(data)
        /\ \A i \in 1..Len(data) : SameKey(data'[i], data[i]) ]_vars

\* a third series has just been added behind two that were there
DiscoveryWitness ==
    /\ Absorbed
    /\ Len(data) = 3
    /\ latestMessageData = <<ItemB, ItemA>>
    /\ SameKey(data[3], ItemA)

\* ------------------------------------------------------------------- C17
\* C17: every record the parser returns has exactly four levels.
FourLevels ==
    \A i \in 1..Len(parsedItems) : Len(parsedItems[i].levels) = 4

\* ------------------------------------------------------------------- C18
\* C18: a record is read from its line by the third token: if it is 'Min' the
\* timeframe is tokens 2 and 3 with a blank between, price is token 4, count
\* token 5 and the levels tokens 6..9; otherwise the timeframe is token 2, price
\* token 3, count token 4 and the levels tokens 5..8; the symbol is token 1.
NumberOf(tok) == ParseFloat(StripCommas(tok))

ReadAt(r, p, first) ==
    /\ r.symbol = p[1]
    /\ r.price = NumberOf(p[first])
    /\ r.count = ParseFloat(p[first + 1])
    /\ Len(r.levels) = Min(4, Len(p) - (first + 1))
    /\ \A k \in 1..Len(r.levels) : r.levels[k] = NumberOf(p[first + 1 + k])

IsFinite(x) == x.kind = "num"

FiniteOutput ==
    \A i \in 1..Len(parsedItems) :
        /\ IsFinite(parsedItems[i].price)
        /\ IsFinite(parsedItems[i].count)
        /\ \A k \in 1..Len(parsedItems[i].levels) : IsFinite(parsedItems[i].levels[k])

\* ------------------------------------------------------------------- C20
\* C20: a kept line whose price, count or one of its levels is not a number
\* gives no record, and the parse of a body is, line by line and in order, the
\* parse of each line alone.
RECURSIVE EachAlone(_)
EachAlone(ls) ==
    IF ls = <<>> THEN <<>> ELSE ParseEmailBody(Head(ls)) \o EachAlone(Tail(ls))

NotNumeric(l) ==
    LET p == SplitWhiteSpace(l)
        first == IF p[3] = TokMin THEN 4 ELSE 3
    IN  /\ Len(p) >= 8
        /\ \/ IsNaN(NumberOf(p[first]))
           \/ IsNaN(ParseFloat(p[first + 1]))
           \/ \E k \in (first + 2)..Min(first + 5, Len(p)) : IsNaN(NumberOf(p[k]))

IsDecimal(tok) ==
    LET unsigned == IF tok # <<>> /\ Head(tok) \in {"+", "-"} THEN Tail(tok) ELSE tok
        nInt == LeadingDigits(unsigned)
        afterInt == SubSeq(unsigned, nInt + 1, Len(unsigned))
    IN  /\ unsigned # <<>>
        /\ \/ nInt >= 1 /\ afterInt = <<>>
           \/ /\ afterInt # <<>>
              /\ Head(afterInt) = "."
              /\ nInt + Len(afterInt) >= 2
              /\ LeadingDigits(Tail(afterInt)) = Len(afterInt) - 1

FullyNumeric(toks) ==
    LET first == IF toks[3] = TokMin THEN 4 ELSE 3
    IN  /\ Len(toks) >= first + 5
        /\ IsDecimal(StripCommas(toks[first]))
        /\ IsDecimal(toks[first + 1])
        /\ \A k \in (first + 2)..(first + 5) : IsDecimal(StripCommas(toks[k]))

OnlyFullyNumeric ==
    lastOp = "parse" =>
        \A i \in 1..Len(KeptLines(messageBody)) :
            ParseEmailBody(KeptLines(messageBody)[i]) # <<>> =>
                FullyNumeric(SplitWhiteSpace(KeptLines(messageBody)[i]))

\* ------------------------------------------------------------------- C23
\* C23: records come only from the lines that, split off and trimmed, start
\* with '@ES' and have at least eight tokens, and every record's symbol starts
\* with '@ES'.
Qualifies(line) ==
    /\ StartsWith(Trim(line), SYMBOL_PREFIX)
    /\ Len(SplitWhiteSpace(Trim(line))) >= 8

RECURSIVE QualifyingAlone(_)
QualifyingAlone(ls) ==
    IF ls = <<>> THEN <<>>
    ELSE (IF Qualifies(Head(ls)) THEN ParseEmailBody(Head(ls)) ELSE <<>>)
         \o QualifyingAlone(Tail(ls))

LineFilter ==
    lastOp = "parse" =>
        /\ parsedItems = QualifyingAlone(SplitOn(messageBody, SPLIT_CHAR))
        /\ \A i \in 1..Len(parsedItems) : StartsWith(parsedItems[i].symbol, SYMBOL_PREFIX)

\* of two lines one does not qualify and the other gave its record
FilterWitness ==
    /\ lastOp = "parse"
    /\ Len(SplitOn(messageBody, SPLIT_CHAR)) = 2
    /\ \E i \in 1..2 : ~Qualifies(SplitOn(messageBody, SPLIT_CHAR)[i])
    /\ \E i \in 1..2 : /\ Qualifies(SplitOn(messageBody, SPLIT_CHAR)[i])
                       /\ parsedItems = ParseEmailBody(SplitOn(messageBody, SPLIT_CHAR)[i])
    /\ Len(parsedItems) = 1

\* ------------------------------------------------------------------- C22
\* C22: whatever body value the fetch step hands to the parser, the parser
\* returns a sequence of records and the route answers 200 with the list.
FetchHandedBody == lastOp \in {"get-200", "get-500-parse"}

ParsingNeverRaises == FetchHandedBody => lastOp = "get-200"

\* ------------------------------------------------------------------- C24
\* C24: the matrix text has one line per record, in list order, separated by
\* single newlines with none at the end; a line is the symbol, the timeframe,
\* price, count and the levels in order, with single blanks between, every
\* number with exactly two decimals.
TwoDecimals(tok) ==
    /\ IsDecimal(tok)
    /\ Len(tok) >= 4
    /\ tok[Len(tok) - 2] = "."

MatrixRows == IF rawMatrix = <<>> THEN <<>> ELSE SplitOn(rawMatrix, <<"\n">>)

RowShape(line, item) ==
    LET lead == item.symbol \o <<" ">> \o item.timeframe \o <<" ">>
        cells == SplitOn(SubSeq(line, Len(lead) + 1, Len(line)), <<" ">>)
    IN  /\ StartsWith(line, lead)
        /\ Len(cells) = 2 + Len(item.levels)
        /\ \A k \in 1..Len(cells) : TwoDecimals(cells[k])
        /\ ParseFloat(cells[1]) = item.price
        /\ ParseFloat(cells[2]) = item.count
        /\ \A k \in 1..Len(item.levels) : ParseFloat(cells[2 + k]) = item.levels[k]

RoundTrip ==
    lastOp = "render" =>
        \A i \in 1..Len(parsedItems) :
            i <= Len(MatrixRows) /\ ParseEmailBody(MatrixRows[i]) = <<parsedItems[i]>>

\* a sub-day record with a price that is not whole has been rendered
RoundTripWitness ==
    /\ lastOp = "render"
    /\ \E i \in 1..Len(parsedItems) :
          /\ parsedItems[i].timeframe = <<"5", " ", "M", "i", "n">>
          /\ parsedItems[i].price.val % 100 # 0
          /\ Len(parsedItems[i].levels) = 4

\* ------------------------------------------------------------------- C26
\* C26: after an absorb, also one by a cycle that was started before the bound
\* was lowered, every series has at most the current maxMessages points.
BoundAfterAbsorb ==
    [][ lastOp' \in {"absorb", "absorb-evict"} =>
            \A i \in 1..Len(data') : Len(data'[i].items) <= maxMessages' ]_vars

\* ------------------------------------------------------------------- C27
\* C27: a change of the bound to 0 leaves every series without points, and an
\* absorb while the bound is 0 leaves every series of a key it carries, a new
\* one included, without points.
ReboundOp == lastOp \in {"rebound", "rebound-trim"}

StoredIds ==
    UNION { { data[i].items[j].messageId : j \in 1..Len(data[i].items) } : i \in 1..Len(data) }

StoredIdsSeen ==
    /\ StoredIds \subseteq seenMessageIds
    /\ \A r \in OkBodies :
          GatePasses(seenMessageIds, r) => ~MessageIdExists(data, r.messageId)

\* every id is seen, and an eviction has left the points of two of them
StoredWitness ==
    /\ lastOp = "absorb-evict"
    /\ seenMessageIds = MessageIds
    /\ Cardinality(StoredIds) = 2

\* ------------------------------------------------------------------- C29
\* C29: every series of the collection has at least one point.
NoEmptySeries == \A i \in 1..Len(data) : Len(data[i].items) >= 1

\* three series have just been cut down to one point each
NoEmptyWitness ==
    /\ lastOp = "rebound-trim"
    /\ maxMessages = 1
    /\ Len(data) = 3
    /\ \A i \in 1..Len(data) : Len(data[i].items) = 1

\* ------------------------------------------------------------------- C30
\* C30: an envelope with a fresh id, a sent value and no records is absorbed
\* by adding its id to seenMessageIds and changing no series; an envelope with
\* that id that comes after it, with records, adds no point.
EmptyEnvelopeConsumed ==
    \A b1 \in CycleBounds : \A r1 \in OkBodies :
        (GatePasses(seenMessageIds, r1) /\ r1.items = <<>>) =>
            LET first == Absorb(data, seenMessageIds, r1, b1)
            IN  /\ first.seen = seenMessageIds \cup {r1.messageId}
                /\ first.data = data
                /\ \A b2 \in CycleBounds : \A r2 \in OkBodies :
                      r2.messageId = r1.messageId =>
                          Absorb(first.data, first.seen, r2, b2).data = data

\* only envelopes without records were absorbed, and one with records and a
\* seen id has just been turned away
EmptyEnvelopeWitness ==
    /\ lastOp = "reject-seen"
    /\ seenMessageIds # {}
    /\ data = <<>>
    /\ latestMessageData # <<>>

\* ------------------------------------------------------------------- C31
\* C31: while Home is mounted exactly one interval is armed, and none after
\* the unmount; a change of the bound leaves one interval armed and starts one
\* fetch.
TimerCount == polling.timers = IF polling.mounted THEN 1 ELSE 0

SingleTimer ==
    [][ /\ TimerCount'
        /\ maxMessages' # maxMessages => Pending' = Pending + 1 ]_vars

\* the bound was changed, then Home was unmounted with a fetch still pending
TimerWitness ==
    /\ lastOp = "unmount"
    /\ polling.timers = 0
    /\ maxMessages # InitialMaxMessages
    /\ Pending >= 1

\* ------------------------------------------------------------------- C32
\* C32: a poll whose fetch of the id or of the body fails, or whose parse
\* throws, leaves latest.json as it was; latest.json changes only after a
\* fetch and a parse that went through, and then holds exactly the parsed items.
PollFailed == {"poll-500-id", "poll-500-body", "poll-500-parse"}

SnapshotKept ==
    [][ /\ lastOp' \in PollFailed => blob' = blob
        /\ (blob' # blob \/ lastOp' = "poll-200") =>
              /\ ~ParseThrows(FetchLatestMessageBody(cleanedBody))
              /\ blob'.present
              /\ blob'.items = ParseEmailBody(FetchLatestMessageBody(cleanedBody).text) ]_vars

\* the parse has thrown and the snapshot of an earlier poll is still there
SnapshotWitness ==
    /\ lastOp = "poll-500-parse"
    /\ blob.present
    /\ blob.items # <<>>

\* ------------------------------------------------------------------- C33
\* C33: of the requests the middleware handles, all pass when AUTH_CODE is not
\* set or empty; otherwise a request passes exactly when its code equals
\* AUTH_CODE, and every other one is answered 401.
Handled == gate.response # "none"

AccessCodeGate ==
    (Handled /\ Matcher(gate.path)) =>
        gate.response = IF gate.authCode = Null \/ gate.authCode = "" THEN "handler"
                        ELSE IF gate.code = gate.authCode THEN "handler"
                        ELSE "401"

\* a page request whose code differs from AUTH_CODE only in case was turned away
GateWitness ==
    /\ Handled
    /\ gate.path = PathDashboard
    /\ gate.authCode = "open-sesame"
    /\ gate.code = "Open-Sesame"
    /\ gate.response = "401"

\* ------------------------------------------------------------------- C34
\* C34: with AUTH_CODE set, a request to a path under /api/ without the right
\* code is answered 401 and does not reach the route handler.
UnderApi(path) == StartsWithPattern(path, <<"/", "a", "p", "i", "/">>)

GateCoversApi ==
    (Handled /\ Truthy(gate.authCode) /\ UnderApi(gate.path) /\ gate.code # gate.authCode) =>
        gate.response = "401"

====
